---- MODULE Spec2Model ----
(***************************************************************************)
(* hvm (Hashicorp Vault Migrator): the batched, concurrent copy-and-verify *)
(* engine of internal/vaultsync.  Syncer.Sync lists the source path, cuts  *)
(* the key list into batches of cfg.BatchSize, and for each batch starts   *)
(* one doSync goroutine per key and waits on a sync.WaitGroup.             *)
(***************************************************************************)
EXTENDS Integers, Sequences, FiniteSets, TLC

\* ------------------------------------------------------------------ bounds
\* Longest key list the source listing returns.
MaxKeys == 3
\* Largest configured batch size.
MaxBatchSize == 2
\* Most batches one run may dispatch; only a batch size of 0, which cuts
\* empty batches for ever, reaches it.
MaxBatches == MaxKeys + 1
\* Longest output of a token command.
MaxOutLen == 5
\* Largest leaf value of a secret document.
MaxLeaf == 2

\* ------------------------------------------------------- the environment
KeyNames == <<"a", "b", "c", "d", "e">>
Keys == {KeyNames[n] : n \in 1..MaxKeys}

\* A value of a secret document (interface{}): a number, or a nested map.
Num(n) == [num |-> n]
Map(f) == [map |-> f]

\* Secret documents (map[string]interface{}); NoDoc: nothing stored there
\* (a nil document).
Docs == {[user |-> Num(1)], [user |-> Num(2)]}
NoDoc == [missing |-> TRUE]

\* The key lists a listing returns: no key twice, in alphabetical order or
\* in the reverse of it, of any length up to MaxKeys.
KeyLists ==
    {[n \in 1..m |-> KeyNames[n]] : m \in 0..MaxKeys}
    \cup {[n \in 1..m |-> KeyNames[MaxKeys + 1 - n]] : m \in 0..MaxKeys}

\* What sourceVault.List answers: a transport error, a response without a
\* "keys" list, or a response whose "keys" is a list (possibly empty).
ListResponses ==
    {[err |-> TRUE, hasKeys |-> FALSE, keys |-> <<>>],
     [err |-> FALSE, hasKeys |-> FALSE, keys |-> <<>>]}
    \cup {[err |-> FALSE, hasKeys |-> TRUE, keys |-> ks] : ks \in KeyLists}

\* Contents of a store: one document (or none) per secret address.
\* The source holds a document at every key, the same everywhere or not;
\* the destination is empty or holds one document at every key.
SourceStores == {[k \in Keys |-> d] : d \in Docs}
                \cup {[k \in Keys |-> IF k = KeyNames[1] THEN [user |-> Num(1)] ELSE [user |-> Num(2)]]}
DestinationStores == {[k \in Keys |-> d] : d \in Docs \cup {NoDoc}}

\* The batchSize entry of the configuration file read by viper: absent, or
\* an integer.
ViperValid == {[set |-> TRUE, val |-> b] : b \in 1..MaxBatchSize}
ViperAny == ViperValid \cup {[set |-> FALSE, val |-> 0]}
                       \cup {[set |-> TRUE, val |-> b] : b \in {-1, 0}}

VARIABLES
    cfg,        \* *Config built by NewConfig
    listResp,   \* the answer sourceVault.List gives in this run
    src,        \* source vault contents
    dst,        \* destination vault contents
    dst0,       \* destination vault contents before the run
    pc,         \* position of Sync
    result,     \* what Sync returned: "none" (not yet), "nil", "error"
    srcList,    \* Sync's srcList
    i,          \* Sync's loop variable
    batch,      \* batchSync's batch argument
    spawned,    \* items of batch whose goroutine has been started
    wg,         \* batchSync's sync.WaitGroup counter
    batches,    \* history: the batches handed to batchSync, in order
    wpc,        \* per key position: position of its doSync goroutine
    wkey,       \* per key position: the item doSync was started with
    wpath,      \* per key position: doSync's path argument, path+item
    wbatch,     \* history: number of the batch that started the goroutine
    srcData,    \* doSync's srcResp.Data
    outcome,    \* per key position: what doSync logged
    calls,      \* history: store calls doSync issued, in order
    destData,   \* doSync's destResp.Data
    callAddr,   \* history: the address of each store call, in order
    written,    \* history: what the destination held after doSync's write
    nspawn,     \* history: goroutines started per key position
    src0,       \* source vault contents before the run
    ctx,        \* syncContext: cancelled or not, and how often Sync read it
    vcfg,       \* initVault's cfg *Vault: Token and TokenCmd
    cmdRes,     \* what running the token command gives: error, or output
    tpc,        \* position of initVault
    tkn,        \* initVault's tkn
    terr,       \* the error initVault returned, "none" if none
    docA,       \* a document as built: field/value pairs in insertion order
    docB,       \* a second document, likewise
    mapA,       \* docA as the Go map eq receives
    mapB,       \* docB as the Go map eq receives
    eqResult,   \* what eq returned
    epc         \* position of the comparison

vars == <<cfg, listResp, src, dst, dst0, pc, result, srcList, i, batch,
          spawned, wg, batches, wpc, wkey, wpath, wbatch, srcData, outcome, calls,
          destData, callAddr, written, nspawn, src0, ctx,
          vcfg, cmdRes, tpc, tkn, terr, docA, docB, mapA, mapB, eqResult, epc>>

Positions == 1..MaxKeys

\* -------------------------------------------------------------- NewConfig
\* v.Unmarshal(c): BatchSize is the file's value, the zero value when the
\* key is absent; nothing validates it.
NewConfig(v) == [BatchSize |-> IF v.set THEN v.val ELSE 0]

\* Variant of listSourcePath: the error of List is not checked.
listSourcePath_ignoreListErr(l) ==
    IF l.err \/ l.hasKeys THEN [err |-> FALSE, keys |-> l.keys]
    ELSE [err |-> TRUE, keys |-> <<>>]

\* --------------------------------------------------------- listSourcePath
\* Returns [err, keys]: an error when List failed or Data["keys"] is not a
\* list; otherwise the keys appended to a nil slice.
listSourcePath(l) ==
    IF l.err THEN [err |-> TRUE, keys |-> <<>>]
    ELSE IF l.hasKeys THEN [err |-> FALSE, keys |-> l.keys]
    ELSE [err |-> TRUE, keys |-> <<>>]

\* ------------------------------------------------------------------- Sync
\* Variants of batchEnd: one key too many, and a clamp one short of len.
batchEnd_offByOne(lo, bs, n) == IF lo + bs + 1 > n THEN n ELSE lo + bs + 1
batchEnd_shortClamp(lo, bs, n) == IF lo + bs >= n THEN n - 1 ELSE lo + bs

\* end := i + BatchSize; if end > len(srcList) { end = len(srcList) }
batchEnd(lo, bs, n) == IF lo + bs > n THEN n ELSE lo + bs

\* srcList[lo:hi] panics unless 0 <= lo <= hi <= len (the slice is built by
\* append and end is clamped to len, so cap plays no part).
sliceInRange(lo, hi, n) == 0 <= lo /\ lo <= hi /\ hi <= n

\* srcList[lo:hi], for indexes in range.
slice(s, lo, hi) == SubSeq(s, lo + 1, hi)

\* Variant of nextIndex: the loop steps over one key between batches.
nextIndex_skip(lo, bs) == lo + bs + 1

\* The loop's post statement, i += s.cfg.BatchSize.
nextIndex(lo, bs) == lo + bs

\* Variant of SyncReturn: a key that did not end Synced fails the run.
SyncReturn_failOnKeyError ==
    IF \E p \in Positions : outcome[p] \notin {"none", "Synced"} THEN "error" ELSE "nil"

\* The value of Sync's final return statement.
SyncReturn == "nil"

\* Variant of waitDone: batchSync returns without waiting.
waitDone_noWait(counter) == TRUE

\* wg.Wait() returns when the counter is zero.
waitDone(counter) == counter = 0

\* ----------------------------------------------------------------- doSync
Outcomes == {"Synced", "ReadFailed", "WriteFailed", "VerifyReadFailed", "Mismatch"}

\* The field names of documents, in the byte order json.Marshal sorts map
\* keys by.
FieldOrder == <<"meta", "pass", "user">>

\* Variant of jsonMarshal: a nested map is written without its contents.
RECURSIVE jsonMarshal_shallow(_)
jsonMarshal_shallow(d) ==
    IF d = NoDoc THEN <<"null">>
    ELSE LET present == SelectSeq(FieldOrder, LAMBDA f : f \in DOMAIN d)
         IN  [n \in 1..Len(present) |->
                <<present[n],
                  IF "map" \in DOMAIN d[present[n]] THEN <<"{}">>
                  ELSE d[present[n]].num>>]

\* json.Marshal: nil gives null; a map gives its fields in sorted key
\* order, a nested map marshalled the same way.
RECURSIVE jsonMarshal(_)
jsonMarshal(d) ==
    IF d = NoDoc THEN <<"null">>
    ELSE LET present == SelectSeq(FieldOrder, LAMBDA f : f \in DOMAIN d)
         IN  [n \in 1..Len(present) |->
                <<present[n],
                  IF "map" \in DOMAIN d[present[n]]
                  THEN jsonMarshal(d[present[n]].map)
                  ELSE d[present[n]].num>>]

\* sha256.Sum256, taken as collision free.
sha256(b) == b

\* Variant of eq: the source document is marshalled twice.
eq_sameArgument(a, b) == sha256(jsonMarshal(a)) = sha256(jsonMarshal(a))

\* eq: both documents marshalled, digests compared.
eq(a, b) == sha256(jsonMarshal(a)) = sha256(jsonMarshal(b))

\* Variants of onSourceRead and onDestWrite: the early return is missing.
onSourceRead_continue(ok) == "write"
onDestWrite_continue(ok) == "verify"

\* Where doSync goes after each store call: to its next call, or to the
\* outcome it logs before returning.
onSourceRead(ok) == IF ok THEN "write" ELSE "ReadFailed"
onDestWrite(ok) == IF ok THEN "verify" ELSE "WriteFailed"
onDestRead(ok, same) ==
    IF ~ok THEN "VerifyReadFailed" ELSE IF same THEN "Synced" ELSE "Mismatch"

Call(op, ok) == [op |-> op, ok |-> ok]

\* cfg.SourceVault.Mount and cfg.SourceVault.Path, which Sync passes on for
\* the calls on both vaults.
SourceMount == "secret"
SourcePath == "team/"

\* Variant of spawnItem: the goroutine sees the loop variable's last value.
spawnItem_lastOfBatch(b, n) == b[Len(b)]

\* batchSync: the item of the n-th turn of `range batch`.
spawnItem(b, n) == b[n]

\* batchSync: the path argument of doSync, path+item.
workerPath(path, item) == path \o item

\* Variant of dataAddress: the listing's metadata address.
dataAddress_metadata(mount, path) == mount \o "/metadata/" \o path

\* doSync: the address of all three store calls, mount+"/data/"+path.
dataAddress(mount, path) == mount \o "/data/" \o path

\* The destination after a successful Write at address k.
storeAfterWrite(store, k, doc) == [store EXCEPT ![k] = doc]

\* Variant of dstAfterVerify: a key that fails verification is rolled back.
dstAfterVerify_rollback(store, k, out) ==
    IF out \in {"VerifyReadFailed", "Mismatch"}
    THEN [store EXCEPT ![k] = dst0[k]] ELSE store

\* doSync after the verification read: the destination is left as it is,
\* whatever the outcome.
dstAfterVerify(store, k, out) == store

\* Variant of Finish: a key that did not end Synced cancels the workers
\* still running, which end ReadFailed.
Finish_cancelSiblings(p, out) ==
    LET hit == IF out = "Synced" THEN {p}
               ELSE {q \in Positions : q = p \/ wpc[q] \notin {"idle", "done"}}
    IN  /\ wpc' = [q \in Positions |-> IF q \in hit THEN "done" ELSE wpc[q]]
        /\ outcome' = [q \in Positions |->
                          IF q = p THEN out
                          ELSE IF q \in hit THEN "ReadFailed" ELSE outcome[q]]
        /\ wg' = wg - Cardinality(hit)

\* Variant of Finish: wg.Done() runs on the success path only.
Finish_doneOnSuccessOnly(p, out) ==
    /\ wpc' = [wpc EXCEPT ![p] = "done"]
    /\ outcome' = [outcome EXCEPT ![p] = out]
    /\ wg' = IF out = "Synced" THEN wg - 1 ELSE wg

\* doSync logs `out` and returns; the deferred wg.Done() runs.
Finish(p, out) ==
    /\ wpc' = [wpc EXCEPT ![p] = "done"]
    /\ outcome' = [outcome EXCEPT ![p] = out]
    /\ wg' = wg - 1

\* -------------------------------------------------------------- initVault
TokenPrefix == <<"h", "v", "s", ".">>
Whitespace == {" ", "\n", "\t", "\r"}
OutputChars == {"\n", "h", "v", "s", "."}
NoToken == <<>>

\* Token commands' outcomes: a failed execution, or its standard output.
CommandOutputs == UNION {[1..n -> OutputChars] : n \in 0..MaxOutLen}
CommandResults ==
    {[err |-> TRUE, out |-> <<>>]} \cup {[err |-> FALSE, out |-> o] : o \in CommandOutputs}

\* Vault configurations: Token and TokenCmd, each empty or set.
LiteralTokens == {NoToken, <<"h", "v", "s", ".", "s">>, <<"s">>}
TokenCommands == {"", "vault-token-helper"}
VaultConfigs == {[Token |-> t, TokenCmd |-> c] : t \in LiteralTokens, c \in TokenCommands}

\* bytes.HasPrefix
HasPrefix(b, pre) == Len(b) >= Len(pre) /\ SubSeq(b, 1, Len(pre)) = pre

\* bytes.TrimSpace
RECURSIVE TrimLeft(_)
TrimLeft(b) == IF b # <<>> /\ Head(b) \in Whitespace THEN TrimLeft(Tail(b)) ELSE b
RECURSIVE TrimRight(_)
TrimRight(b) ==
    IF b # <<>> /\ b[Len(b)] \in Whitespace THEN TrimRight(SubSeq(b, 1, Len(b) - 1)) ELSE b
TrimSpace(b) == TrimRight(TrimLeft(b))

\* initVault's switch: the token command when TokenCmd is set (Token is
\* then not looked at), else the literal Token, else an error.  The prefix
\* is tested on the command's raw output, which is trimmed afterwards.
resolveToken(c, run) ==
    IF c.TokenCmd # ""
    THEN IF run.err THEN [err |-> "TokenCommandFailed", tkn |-> NoToken]
         ELSE IF HasPrefix(run.out, TokenPrefix)
              THEN [err |-> "none", tkn |-> TrimSpace(run.out)]
              ELSE [err |-> "TokenFormatInvalid", tkn |-> NoToken]
    ELSE IF c.Token # NoToken THEN [err |-> "none", tkn |-> c.Token]
    ELSE [err |-> "NoTokenProvided", tkn |-> NoToken]

\* --------------------------------------------------- documents, as built
LeafValues == 1..MaxLeaf
NestedFields == {"pass", "user"}

\* Field/value pairs in insertion order, no field twice.
PairSeqs(pairs, n) ==
    {s \in UNION {[1..m -> pairs] : m \in 0..n} :
        \A a, b \in DOMAIN s : a # b => s[a][1] # s[b][1]}

\* Nested objects: leaf fields only.
NestedObjects ==
    PairSeqs(NestedFields \X {Num(v) : v \in LeafValues}, Cardinality(NestedFields))

\* Documents: a leaf field "user" and a nested object "meta".
InsertionDocs ==
    PairSeqs(({"user"} \X {Num(v) : v \in LeafValues})
                \cup ({"meta"} \X {[obj |-> o] : o \in NestedObjects}), 2)

\* The Go map that inserting the pairs of s one after the other builds.
RECURSIVE buildMap(_)
buildMap(s) ==
    IF s = <<>> THEN <<>>
    ELSE LET m == buildMap(SubSeq(s, 1, Len(s) - 1))
             f == s[Len(s)][1]
             v == s[Len(s)][2]
             val == IF "obj" \in DOMAIN v THEN Map(buildMap(v.obj)) ELSE v
         IN  [g \in DOMAIN m \cup {f} |-> IF g = f THEN val ELSE m[g]]

\* ------------------------------------------------------------------- Init
\* initVault and the comparison at rest.
TokenIdle ==
    /\ vcfg = [Token |-> NoToken, TokenCmd |-> ""]
    /\ cmdRes = [err |-> FALSE, out |-> <<>>]
    /\ tpc = "idle"
    /\ tkn = NoToken
    /\ terr = "none"

EqIdle ==
    /\ docA = <<>>
    /\ docB = <<>>
    /\ mapA = NoDoc
    /\ mapB = NoDoc
    /\ eqResult = FALSE
    /\ epc = "idle"

\* Sync about to be called: nothing listed, no goroutine started.
SyncStart ==
    /\ dst0 = dst
    /\ pc = "start"
    /\ result = "none"
    /\ srcList = <<>>
    /\ i = 0
    /\ batch = <<>>
    /\ spawned = 0
    /\ wg = 0
    /\ batches = <<>>
    /\ wpc = [p \in Positions |-> "idle"]
    /\ wkey = [p \in Positions |-> ""]
    /\ wpath = [p \in Positions |-> ""]
    /\ wbatch = [p \in Positions |-> 0]
    /\ srcData = [p \in Positions |-> NoDoc]
    /\ outcome = [p \in Positions |-> "none"]
    /\ calls = [p \in Positions |-> <<>>]
    /\ destData = [p \in Positions |-> NoDoc]
    /\ callAddr = [p \in Positions |-> <<>>]
    /\ written = [p \in Positions |-> NoDoc]
    /\ nspawn = [p \in Positions |-> 0]
    /\ src0 = src
    /\ ctx = [cancelled |-> FALSE, reads |-> 0]

InitWith(viper) ==
    /\ cfg \in {NewConfig(v) : v \in viper}
    /\ listResp \in ListResponses
    /\ src \in SourceStores
    /\ dst \in DestinationStores
    /\ TokenIdle
    /\ EqIdle
    /\ SyncStart

\* A run whose configuration file holds a positive batch size.
Init == InitWith(ViperValid)

\* A run under any configuration file, batchSize absent, zero or negative
\* included.
InitAnyConfig == InitWith(ViperAny)

\* ---------------------------------------------------------------- actions
workerVars == <<wpc, wkey, wpath, wbatch, srcData, outcome, calls, destData,
                callAddr, written, nspawn>>
envVars == <<cfg, listResp, src, dst0, src0,
            vcfg, cmdRes, tpc, tkn, terr, docA, docB, mapA, mapB, eqResult, epc>>

\* Sync: srcList, err := s.listSourcePath(...); on error return it, and
\* the deferred syncCancel() runs.
SyncList ==
    /\ pc = "start"
    /\ LET r == listSourcePath(listResp)
       IN  IF r.err
           THEN /\ pc' = "failed"
                /\ result' = "error"
                /\ ctx' = [ctx EXCEPT !.cancelled = TRUE]
                /\ UNCHANGED srcList
           ELSE /\ pc' = "loop"
                /\ srcList' = r.keys
                /\ UNCHANGED <<result, ctx>>
    /\ i' = 0
    /\ UNCHANGED <<envVars, dst, batch, spawned, wg, batches, workerVars>>

\* Sync: the loop test, and either the final return or the cut of the next
\* batch and the call of batchSync with it.  syncContext is handed on and
\* never read; the deferred syncCancel() runs on return and on panic.
SyncLoop ==
    /\ pc = "loop"
    /\ IF i < Len(srcList)
       THEN LET end == batchEnd(i, cfg.BatchSize, Len(srcList))
            IN  IF sliceInRange(i, end, Len(srcList))
                THEN /\ Len(batches) < MaxBatches
                     /\ batch' = slice(srcList, i, end)
                     /\ batches' = Append(batches, batch')
                     /\ spawned' = 0
                     /\ pc' = IF batch' = <<>> THEN "wait" ELSE "spawn"
                     /\ UNCHANGED <<result, ctx>>
                ELSE /\ pc' = "panic"
                     /\ ctx' = [ctx EXCEPT !.cancelled = TRUE]
                     /\ UNCHANGED <<result, batch, batches, spawned>>
       ELSE /\ pc' = "done"
            /\ result' = SyncReturn
            /\ ctx' = [ctx EXCEPT !.cancelled = TRUE]
            /\ UNCHANGED <<batch, batches, spawned>>
    /\ UNCHANGED <<envVars, dst, srcList, i, wg, workerVars>>

\* batchSync: one turn of `for _, item := range batch`: wg.Add(1) and
\* go s.doSync(&wg, ctx, mount, path+item).
BatchSpawn ==
    /\ pc = "spawn"
    /\ spawned < Len(batch)
    /\ LET p == i + spawned + 1
           item == spawnItem(batch, spawned + 1)
       IN  /\ p \in Positions
           /\ wg' = wg + 1
           /\ wpc' = [wpc EXCEPT ![p] = "read"]
           /\ wkey' = [wkey EXCEPT ![p] = item]
           /\ wpath' = [wpath EXCEPT ![p] = workerPath(SourcePath, item)]
           /\ wbatch' = [wbatch EXCEPT ![p] = Len(batches)]
           /\ nspawn' = [nspawn EXCEPT ![p] = @ + 1]
    /\ spawned' = spawned + 1
    /\ pc' = IF spawned' = Len(batch) THEN "wait" ELSE "spawn"
    /\ UNCHANGED <<envVars, dst, result, srcList, i, batch, batches, ctx,
                   srcData, outcome, calls, destData, callAddr, written>>

\* batchSync: wg.Wait() returns, batchSync returns, and the loop advances.
BatchWait ==
    /\ pc = "wait"
    /\ waitDone(wg)
    /\ pc' = "loop"
    /\ i' = nextIndex(i, cfg.BatchSize)
    /\ UNCHANGED <<envVars, dst, result, srcList, batch, spawned, wg,
                   batches, ctx, workerVars>>

\* doSync: s.sourceVault.Read, which fails or answers the stored document.
SourceRead(p) ==
    /\ wpc[p] = "read"
    /\ \E ok \in BOOLEAN :
         LET next == onSourceRead(ok)
         IN  /\ calls' = [calls EXCEPT ![p] = Append(@, Call("srcRead", ok))]
             /\ callAddr' = [callAddr EXCEPT
                               ![p] = Append(@, dataAddress(SourceMount, wpath[p]))]
             /\ srcData' = [srcData EXCEPT ![p] = IF ok THEN src[wkey[p]] ELSE NoDoc]
             /\ IF next \in Outcomes
                THEN Finish(p, next)
                ELSE /\ wpc' = [wpc EXCEPT ![p] = next]
                     /\ UNCHANGED <<outcome, wg>>
    /\ UNCHANGED <<envVars, dst, pc, result, srcList, i, batch, spawned,
                   batches, ctx, wkey, wpath, wbatch, destData, written, nspawn>>

\* doSync: s.destinationVault.Write of srcResp.Data.  A failed write stores
\* nothing; after a successful one the destination holds `stored`, the
\* document written when the store is faithful.
DestWrite(p) ==
    /\ wpc[p] = "write"
    /\ \E ok \in BOOLEAN, stored \in Docs :
         LET next == onDestWrite(ok)
         IN  /\ ~ok => stored = srcData[p]
             /\ calls' = [calls EXCEPT ![p] = Append(@, Call("dstWrite", ok))]
             /\ callAddr' = [callAddr EXCEPT
                               ![p] = Append(@, dataAddress(SourceMount, wpath[p]))]
             /\ dst' = IF ok THEN storeAfterWrite(dst, wkey[p], stored) ELSE dst
             /\ written' = [written EXCEPT ![p] = IF ok THEN stored ELSE NoDoc]
             /\ IF next \in Outcomes
                THEN Finish(p, next)
                ELSE /\ wpc' = [wpc EXCEPT ![p] = next]
                     /\ UNCHANGED <<outcome, wg>>
    /\ UNCHANGED <<envVars, pc, result, srcList, i, batch, spawned,
                   batches, ctx, wkey, wpath, wbatch, srcData, destData, nspawn>>

\* doSync: s.destinationVault.Read, then eq on the two documents and the
\* log line; a read of an address that holds nothing fails.
DestRead(p) ==
    /\ wpc[p] = "verify"
    /\ \E ok \in BOOLEAN :
         LET got == IF ok THEN dst[wkey[p]] ELSE NoDoc
             next == onDestRead(ok, eq(srcData[p], got))
         IN  /\ ok => dst[wkey[p]] # NoDoc
             /\ calls' = [calls EXCEPT ![p] = Append(@, Call("dstRead", ok))]
             /\ callAddr' = [callAddr EXCEPT
                               ![p] = Append(@, dataAddress(SourceMount, wpath[p]))]
             /\ destData' = [destData EXCEPT ![p] = got]
             /\ dst' = dstAfterVerify(dst, wkey[p], next)
             /\ IF next \in Outcomes
                THEN Finish(p, next)
                ELSE /\ wpc' = [wpc EXCEPT ![p] = next]
                     /\ UNCHANGED <<outcome, wg>>
    /\ UNCHANGED <<envVars, pc, result, srcList, i, batch, spawned,
                   batches, ctx, wkey, wpath, wbatch, srcData, written, nspawn>>

Next ==
    \/ SyncList
    \/ SyncLoop
    \/ BatchSpawn
    \/ BatchWait
    \/ \E p \in Positions : SourceRead(p)
    \/ \E p \in Positions : DestWrite(p)
    \/ \E p \in Positions : DestRead(p)

Spec == Init /\ [][Next]_vars

SpecAnyConfig == InitAnyConfig /\ [][Next]_vars

\* ---------------------------------------------------- initVault, stepwise
syncVars == <<cfg, listResp, src, dst, dst0, pc, result, srcList, i, batch,
              spawned, wg, batches, ctx, src0, workerVars>>
tokenVars == <<vcfg, cmdRes, tpc, tkn, terr>>
eqVars == <<docA, docB, mapA, mapB, eqResult, epc>>

\* NewSyncer calls initVault on one vault configuration; the token command,
\* if the configuration names one, gives cmdRes when run.
InitToken ==
    /\ vcfg \in VaultConfigs
    /\ cmdRes \in IF vcfg.TokenCmd = ""
                  THEN {[err |-> FALSE, out |-> <<>>]} ELSE CommandResults
    /\ tpc = "start"
    /\ tkn = NoToken
    /\ terr = "none"
    /\ EqIdle
    /\ cfg = NewConfig([set |-> TRUE, val |-> 1])
    /\ listResp = [err |-> FALSE, hasKeys |-> TRUE, keys |-> <<>>]
    /\ src = [k \in Keys |-> [user |-> Num(1)]]
    /\ dst = [k \in Keys |-> NoDoc]
    /\ SyncStart

\* initVault: the switch that resolves tkn, or returns its error.
ResolveToken ==
    /\ tpc = "start"
    /\ LET r == resolveToken(vcfg, cmdRes)
       IN  /\ terr' = r.err
           /\ tkn' = r.tkn
           /\ tpc' = IF r.err = "none" THEN "resolved" ELSE "failed"
    /\ UNCHANGED <<syncVars, eqVars, vcfg, cmdRes>>

\* initVault: vault.New and SetToken, each of which may fail.
NewClient ==
    /\ tpc = "resolved"
    /\ \E ok \in BOOLEAN :
         /\ tpc' = IF ok THEN "client" ELSE "failed"
         /\ terr' = IF ok THEN "none" ELSE "ClientFailed"
    /\ UNCHANGED <<syncVars, eqVars, vcfg, cmdRes, tkn>>

NextToken == ResolveToken \/ NewClient

SpecToken == InitToken /\ [][NextToken]_vars

\* --------------------------------------------------------- eq, stepwise
\* Two documents built field by field, in any insertion order.
InitEq ==
    /\ docA \in InsertionDocs
    /\ docB \in InsertionDocs
    /\ mapA = NoDoc
    /\ mapB = NoDoc
    /\ eqResult = FALSE
    /\ epc = "start"
    /\ TokenIdle
    /\ cfg = NewConfig([set |-> TRUE, val |-> 1])
    /\ listResp = [err |-> FALSE, hasKeys |-> TRUE, keys |-> <<>>]
    /\ src = [k \in Keys |-> [user |-> Num(1)]]
    /\ dst = [k \in Keys |-> NoDoc]
    /\ SyncStart

\* The documents reach doSync as Go maps (srcResp.Data, destResp.Data).
DecodeDocs ==
    /\ epc = "start"
    /\ mapA' = buildMap(docA)
    /\ mapB' = buildMap(docB)
    /\ epc' = "decoded"
    /\ UNCHANGED <<syncVars, tokenVars, docA, docB, eqResult>>

\* doSync calls s.eq on the two maps.
CompareDocs ==
    /\ epc = "decoded"
    /\ eqResult' = eq(mapA, mapB)
    /\ epc' = "done"
    /\ UNCHANGED <<syncVars, tokenVars, docA, docB, mapA, mapB>>

NextEq == DecodeDocs \/ CompareDocs

SpecEq == InitEq /\ [][NextEq]_vars

\* Sync's goroutine and every doSync goroutine keep being scheduled, and
\* every store call returns.
SyncStep == SyncList \/ SyncLoop \/ BatchSpawn \/ BatchWait
WorkerStep(p) == SourceRead(p) \/ DestWrite(p) \/ DestRead(p)
Fairness == WF_vars(SyncStep) /\ \A p \in Positions : WF_vars(WorkerStep(p))
SpecFair == Init /\ [][Next]_vars /\ Fairness

\* ------------------------------------------------------------- properties
RECURSIVE Flatten(_)
Flatten(ss) == IF ss = <<>> THEN <<>> ELSE Head(ss) \o Flatten(Tail(ss))

IsPrefix(s, t) == Len(s) <= Len(t) /\ s = SubSeq(t, 1, Len(s))

\* Workers started and not yet finished.
InFlight == {p \in Positions : wpc[p] \notin {"idle", "done"}}

HasCall(p, op, ok) == \E n \in DOMAIN calls[p] : calls[p][n] = Call(op, ok)
IssuedCall(p, op) == \E n \in DOMAIN calls[p] : calls[p][n].op = op

\* The listing gave Sync no key list: List failed, or answered no "keys".
EnumerationFailed == listResp.err \/ ~listResp.hasKeys

\* C1: batch barrier.  Whenever a worker q has been started, every earlier
\* list position p has been started too, in the same batch or an earlier
\* one, and if p's batch is an earlier one then p has finished (with any
\* outcome); a worker that has not been started has issued no store call.
C1_BatchBarrier ==
    /\ \A q \in Positions : wpc[q] # "idle" =>
         \A p \in 1..(q - 1) :
            /\ wpc[p] # "idle"
            /\ wbatch[p] <= wbatch[q]
            /\ wbatch[p] < wbatch[q] => wpc[p] = "done"
    /\ \A q \in Positions : wpc[q] = "idle" => calls[q] = <<>>

\* C1 witness: two workers of batch 1 finished, one Synced and one
\* WriteFailed, and a worker of batch 2 is running.
C1_Witness ==
    \E p, r, q \in Positions :
        /\ wbatch[p] = 1 /\ outcome[p] = "Synced"
        /\ wbatch[r] = 1 /\ outcome[r] = "WriteFailed"
        /\ wbatch[q] = 2 /\ wpc[q] = "write"

\* C2: the number of workers started and not yet finished never exceeds
\* the configured batch size.
C2_BoundedInFlight == Cardinality(InFlight) <= cfg.BatchSize

\* C2 witness: a full batch of the largest size is in flight at once.
C2_Witness ==
    /\ cfg.BatchSize = MaxBatchSize
    /\ Cardinality(InFlight) = MaxBatchSize
    /\ \A p \in InFlight : wpc[p] = "verify"

\* C3: for a positive batch size the dispatched batches, concatenated in
\* dispatch order, are always a prefix of the enumerated list, and equal
\* the whole list when Sync returns.
C3_BatchesPartitionList ==
    cfg.BatchSize > 0 =>
        /\ IsPrefix(Flatten(batches), srcList)
        /\ pc = "done" => Flatten(batches) = srcList

\* C3 witness: a finished run over three keys, listed out of alphabetical
\* order, cut into two batches.
C3_Witness ==
    /\ pc = "done"
    /\ Len(srcList) = 3
    /\ srcList[1] = KeyNames[3]
    /\ Len(batches) = 2

\* C4: for a positive batch size every dispatched batch holds between 1
\* and batchSize keys, and every batch but the last dispatched holds
\* exactly batchSize keys.
C4_BatchSizes ==
    cfg.BatchSize > 0 =>
        \A j \in DOMAIN batches :
            /\ Len(batches[j]) >= 1
            /\ Len(batches[j]) <= cfg.BatchSize
            /\ j < Len(batches) => Len(batches[j]) = cfg.BatchSize

\* C4 witness: a finished run whose last batch is shorter than batchSize.
C4_Witness ==
    /\ pc = "done"
    /\ Len(batches) = 2
    /\ Len(batches[1]) = cfg.BatchSize
    /\ Len(batches[2]) < cfg.BatchSize

\* C5 (as claimed): with a batch size of zero or less and a listing of at
\* least one key, the run is rejected: no batch is ever handed to
\* batchSync, no store call is issued, and Sync neither waits on a batch
\* nor returns success.
C5_InvalidBatchSizeRejected ==
    (cfg.BatchSize <= 0 /\ listResp.hasKeys /\ listResp.keys # <<>>) =>
        /\ batches = <<>>
        /\ \A p \in Positions : calls[p] = <<>>
        /\ pc \notin {"spawn", "wait", "done"}

\* C6: Sync returns an error only when the enumeration failed, and then no
\* batch was dispatched; when the listing succeeded Sync returns nil,
\* whatever the outcomes of the keys.
C6_ErrorOnlyFromEnumeration ==
    /\ result = "error" => EnumerationFailed /\ batches = <<>>
    /\ pc = "failed" => result = "error"
    /\ pc = "done" => result = "nil" /\ ~EnumerationFailed

\* C6 witness: Sync returned nil although three keys ended ReadFailed,
\* VerifyReadFailed and Mismatch.
C6_Witness ==
    /\ pc = "done"
    /\ result = "nil"
    /\ \E p, q, r \in Positions :
         /\ outcome[p] = "ReadFailed"
         /\ outcome[q] = "VerifyReadFailed"
         /\ outcome[r] = "Mismatch"

\* C7 (as claimed): when the listing yields zero keys, the "keys" entry
\* missing or present but empty, Sync never returns success and no batch
\* is dispatched.
C7_EmptyListingAborts ==
    (~listResp.err /\ (~listResp.hasKeys \/ listResp.keys = <<>>)) =>
        /\ pc # "done"
        /\ result # "nil"
        /\ batches = <<>>

\* C8: when List itself fails, Sync goes from its start straight to the
\* error return, no worker issues a store call, and the destination holds
\* what it held before the run.
C8_ListFailureAborts ==
    listResp.err =>
        /\ pc \in {"start", "failed"}
        /\ pc = "failed" => result = "error"
        /\ \A p \in Positions : wpc[p] = "idle" /\ calls[p] = <<>>
        /\ dst = dst0

\* C8 witness: List failed and Sync has returned the error.
C8_Witness ==
    /\ listResp.err
    /\ pc = "failed"
    /\ result = "error"

\* C9: a worker whose destination write failed has finished with outcome
\* WriteFailed, the failed write being its last store call: no
\* verification read follows.
C9_WriteFailedStops ==
    \A p \in Positions : HasCall(p, "dstWrite", FALSE) =>
        /\ wpc[p] = "done"
        /\ outcome[p] = "WriteFailed"
        /\ ~IssuedCall(p, "dstRead")
        /\ calls[p] = <<Call("srcRead", TRUE), Call("dstWrite", FALSE)>>

\* C9 witness: the run is over and some key ended WriteFailed.
C9_Witness ==
    /\ pc = "done"
    /\ \E p \in Positions : HasCall(p, "dstWrite", FALSE)

\* C10: a worker whose source read failed has finished with outcome
\* ReadFailed, the failed read is its only store call, and the destination
\* holds at its key what it held before the run.
C10_ReadFailedLeavesDestination ==
    \A p \in Positions : HasCall(p, "srcRead", FALSE) =>
        /\ wpc[p] = "done"
        /\ outcome[p] = "ReadFailed"
        /\ calls[p] = <<Call("srcRead", FALSE)>>
        /\ dst[wkey[p]] = dst0[wkey[p]]

\* C10 witness: the run is over, one key ended ReadFailed with a document
\* already at its destination address, and another key was overwritten.
C10_Witness ==
    /\ pc = "done"
    /\ \E p, q \in Positions :
         /\ outcome[p] = "ReadFailed"
         /\ dst0[wkey[p]] # NoDoc
         /\ outcome[q] = "Synced"
         /\ dst[wkey[q]] # dst0[wkey[q]]

AllOk == <<Call("srcRead", TRUE), Call("dstWrite", TRUE), Call("dstRead", TRUE)>>

\* The outcome that the results of p's own store calls call for.
OwnOutcome(p) ==
    IF HasCall(p, "srcRead", FALSE) THEN "ReadFailed"
    ELSE IF HasCall(p, "dstWrite", FALSE) THEN "WriteFailed"
    ELSE IF HasCall(p, "dstRead", FALSE) THEN "VerifyReadFailed"
    ELSE IF destData[p] = srcData[p] THEN "Synced" ELSE "Mismatch"

\* C11: failure isolation.  Under every interleaving a finished worker's
\* outcome is the one its own store calls call for, a worker that has not
\* finished has no outcome (nothing ended it from outside), and when Sync
\* returns every listed key has run to its own outcome, whatever happened
\* to its siblings and to earlier batches.
C11_FailureIsolation ==
    /\ \A p \in Positions :
         /\ wpc[p] = "done" => calls[p] # <<>> /\ outcome[p] = OwnOutcome(p)
         /\ wpc[p] # "done" => outcome[p] = "none"
    /\ pc = "done" => \A p \in 1..Len(srcList) : wpc[p] = "done"

\* C11 witness: the second key of the first batch ended WriteFailed, its
\* sibling and the key of the next batch ended Synced.
C11_Witness ==
    /\ pc = "done"
    /\ wbatch[1] = 1 /\ wbatch[2] = 1 /\ wbatch[3] = 2
    /\ outcome[1] = "Synced"
    /\ outcome[2] = "WriteFailed"
    /\ outcome[3] = "Synced"

\* C12: a worker whose three store calls succeeded ends Synced exactly
\* when the document read back equals the document read from the source
\* and Mismatch otherwise; when the destination stored the write
\* faithfully it holds the source's document afterwards and the outcome is
\* Synced.
C12_VerifyOutcome ==
    \A p \in Positions : calls[p] = AllOk =>
        /\ outcome[p] = "Synced" <=> destData[p] = srcData[p]
        /\ outcome[p] = "Mismatch" <=> destData[p] # srcData[p]
        /\ written[p] = srcData[p] =>
              /\ dst[wkey[p]] = src[wkey[p]]
              /\ outcome[p] = "Synced"

\* C12 witness: one key whose destination held a different document is
\* overwritten with the source's and ends Synced; another ends Mismatch.
C12_Witness ==
    \E p, q \in Positions :
        /\ calls[p] = AllOk
        /\ dst0[wkey[p]] \in Docs
        /\ dst0[wkey[p]] # src[wkey[p]]
        /\ dst[wkey[p]] = src[wkey[p]]
        /\ outcome[p] = "Synced"
        /\ calls[q] = AllOk
        /\ outcome[q] = "Mismatch"

\* C13 (as claimed): the cancellation signal is checked before each new
\* batch is started, so Sync has read syncContext at least once per batch
\* it has dispatched.
C13_CancelCheckedBeforeBatch == Len(batches) <= ctx.reads

CeilDiv(n, b) == (n + b - 1) \div b

\* C17: termination.  With every goroutine scheduled and every store call
\* returning, Sync eventually returns; and when it returns after a
\* successful listing of n keys it has dispatched exactly ceil(n/b)
\* batches, the WaitGroup is back at zero and no worker is in flight.
C17_Termination ==
    /\ <>(pc \in {"done", "failed"})
    /\ [](pc = "done" =>
            /\ Len(batches) = CeilDiv(Len(srcList), cfg.BatchSize)
            /\ InFlight = {}
            /\ wg = 0)

\* C17 witness: Sync returned after two batches over three keys, two of
\* which left doSync on a failure path.
C17_Witness ==
    /\ pc = "done"
    /\ Len(srcList) = 3
    /\ Len(batches) = 2
    /\ outcome[1] = "ReadFailed"
    /\ outcome[3] = "VerifyReadFailed"

\* C18: when Sync returns nil, each position of the enumerated list has
\* had exactly one worker, started with that position's key and path
\* prefix + key, which has finished with one of the five outcomes; no
\* other worker was started.
C18_OneWorkerPerKey ==
    (pc = "done" /\ result = "nil") =>
        \A p \in Positions :
            IF p <= Len(srcList)
            THEN /\ nspawn[p] = 1
                 /\ wkey[p] = srcList[p]
                 /\ wpath[p] = SourcePath \o srcList[p]
                 /\ wpc[p] = "done"
                 /\ outcome[p] \in Outcomes
            ELSE /\ nspawn[p] = 0
                 /\ wpc[p] = "idle"
                 /\ outcome[p] = "none"

\* C18 witness: a finished run over three keys in two batches with three
\* different outcomes.
C18_Witness ==
    /\ pc = "done"
    /\ result = "nil"
    /\ cfg.BatchSize = 2
    /\ Len(srcList) = 3
    /\ outcome[1] = "Mismatch"
    /\ outcome[2] = "Synced"
    /\ outcome[3] = "WriteFailed"

OpOrder == <<"srcRead", "dstWrite", "dstRead">>

Enumerated == {srcList[n] : n \in DOMAIN srcList}

\* C20: frame of a run.  The source holds what it held before the run; a
\* destination address of a key that is not enumerated, or whose worker
\* has had no successful write, holds its prior value; and a key that
\* ended VerifyReadFailed or Mismatch holds what the write left there.
C20_Frame ==
    /\ src = src0
    /\ \A k \in Keys \ Enumerated : dst[k] = dst0[k]
    /\ \A p \in Positions : wpc[p] # "idle" =>
         /\ ~HasCall(p, "dstWrite", TRUE) => dst[wkey[p]] = dst0[wkey[p]]
         /\ outcome[p] \in {"VerifyReadFailed", "Mismatch"} =>
               dst[wkey[p]] = written[p]

\* C20 witness: a finished run in which a key that was not listed keeps
\* its document, one key ended Mismatch and one VerifyReadFailed, both
\* holding a document other than the prior one.
C20_Witness ==
    /\ pc = "done"
    /\ \E k \in Keys \ Enumerated : dst0[k] \in Docs
    /\ \E p, q \in Positions :
         /\ outcome[p] = "Mismatch"
         /\ dst[wkey[p]] # dst0[wkey[p]]
         /\ outcome[q] = "VerifyReadFailed"
         /\ dst[wkey[q]] # dst0[wkey[q]]

\* C14 (as claimed): initVault resolves a token only for a configuration
\* with exactly one of Token and TokenCmd set; with both or neither set it
\* fails and no client is constructed.
C14_ExactlyOneCredential ==
    tpc \in {"resolved", "client"} =>
        (vcfg.Token # NoToken) # (vcfg.TokenCmd # "")

\* C15 (as claimed): for a token command that ran, the token is accepted
\* exactly when its output, trimmed of surrounding whitespace, carries the
\* prefix "hvs.", and is then that trimmed output; otherwise initVault
\* fails with TokenFormatInvalid; a command that failed to run gives
\* TokenCommandFailed.
C15_TrimmedPrefixDecides ==
    (vcfg.TokenCmd # "" /\ tpc \in {"resolved", "failed"} /\ terr # "ClientFailed") =>
        IF cmdRes.err THEN tpc = "failed" /\ terr = "TokenCommandFailed"
        ELSE IF HasPrefix(TrimSpace(cmdRes.out), TokenPrefix)
             THEN tpc = "resolved" /\ tkn = TrimSpace(cmdRes.out)
             ELSE tpc = "failed" /\ terr = "TokenFormatInvalid"

\* What a document holds, whatever the order it was built in: its
\* field/value pairs as a set, those of a nested object likewise.
Content(s) ==
    {<<s[n][1],
       IF "obj" \in DOMAIN s[n][2]
       THEN [set |-> {s[n][2].obj[m] : m \in DOMAIN s[n][2].obj}]
       ELSE s[n][2]>> : n \in DOMAIN s}

\* C16: once compared, two documents are found equal exactly when they
\* hold the same field values at every nesting level, whatever the order
\* their fields were inserted in.
C16_EqStructural == epc = "done" => (eqResult <=> Content(docA) = Content(docB))

\* C16 witness: two documents with the same content, built in opposite
\* field orders at both levels, were found equal.
C16_Witness ==
    /\ epc = "done"
    /\ eqResult
    /\ Len(docA) = 2 /\ Len(docB) = 2
    /\ docA[1][1] = "meta" /\ docB[1][1] = "user"
    /\ Len(docA[1][2].obj) = 2
    /\ docA[1][2].obj[1][1] # docB[2][2].obj[1][1]

====
